---- MODULE Spec2Model ----
(***************************************************************************)
(* Model of two Phaser loader file types:                                  *)
(*   src/src/loader/filetypes/HTMLFile.js                                  *)
(*   src/src/loader/filetypes/TilemapImpactFile.js                         *)
(*                                                                         *)
(* A JavaScript object is a TLA+ function whose domain is the set of its   *)
(* properties that hold a defined value: "k \in DOMAIN o" is "o.k is not   *)
(* undefined", and an argument that was not passed is a missing field of   *)
(* the argument record.                                                    *)
(***************************************************************************)
EXTENDS Integers, Sequences, FiniteSets, TLC

VARIABLES
    queue,      \* the files handed to Loader.addFile, in call order
    lastCall,   \* the last call of a registered loader method and what it returned
    input,      \* SpecRegister: the call drawn by Init, applied once
    textures,   \* loader.textureManager: key -> texture
    tilemaps    \* loader.cacheManager.tilemap: key -> entry

vars == <<queue, lastCall, input, textures, tilemaps>>

----------------------------------------------------------------------------
(* Bounds *)

\* Most files the loader's queue holds in Spec.
MaxFiles == 2

\* Longest array handed to html() / tilemapWeltmeister().
MaxArr == 2

----------------------------------------------------------------------------
(* JavaScript values *)

\* The object with no defined property; also "no arguments passed".
Empty == [k \in {} |-> k]

\* utils/object/GetFastValue with a default: the property when defined.
GetFastValue(source, key, defaultValue) ==
    IF key \in DOMAIN source THEN source[key] ELSE defaultValue

\* The fragment { name: GetFastValue(source, key) }: no field when the value
\* is undefined.
Field(name, source, key) ==
    IF key \in DOMAIN source THEN name :> source[key] ELSE Empty

\* A key argument is a string, a plain configuration object, or an array.
IsPlainObject(key) == key.kind = "object"

IsArray(key) == key.kind = "array"

StrKey(s) == [kind |-> "string", v |-> s]

ObjKey(o) == [kind |-> "object", v |-> o]

ArrKey(a) == [kind |-> "array", v |-> a]

\* The loader a file type method is called on (`this`).
Loader ==
    [id |-> "loader",
     textureManager |-> "textureManager",
     cacheManager |-> [json |-> "cacheManager.json",
                       tilemap |-> "cacheManager.tilemap"]]

----------------------------------------------------------------------------
(* The File base class (loader/File.js) *)

\* File constructor: copies the file config into the new file, which starts
\* pending, with no data.
File(loader, fileConfig, cls) ==
    [cls |-> cls,
     loader |-> loader.id,
     fileConfig |-> fileConfig,
     type |-> fileConfig.type,
     cache |-> fileConfig.cache,
     config |-> GetFastValue(fileConfig, "config", Empty),
     state |-> "FILE_PENDING",
     trace |-> <<>>]
    @@ Field("key", fileConfig, "key")
    @@ Field("url", fileConfig, "url")
    @@ Field("xhrSettings", fileConfig, "xhrSettings")

\* Loader.addFile: the file joins the queue.
addFile(q, file) == Append(q, file)

----------------------------------------------------------------------------
(* HTMLFile constructor *)

HTMLFileWidth(key, args) ==
    LET width == IF "width" \in DOMAIN args THEN args.width ELSE 512
    IN  IF IsPlainObject(key) THEN GetFastValue(key.v, "width", width) ELSE width

\* Mutant: the height falls back to the width argument.
HTMLFileHeight_usesWidthArg(key, args) ==
    LET height == IF "width" \in DOMAIN args THEN args.width ELSE 512
    IN  IF IsPlainObject(key) THEN GetFastValue(key.v, "height", height) ELSE height

HTMLFileHeight(key, args) ==
    LET height == IF "height" \in DOMAIN args THEN args.height ELSE 512
    IN  IF IsPlainObject(key) THEN GetFastValue(key.v, "height", height) ELSE height

\* Mutant: the configuration object's extension is not read.
HTMLFileExtension_ignoresConfig(key, args) == "html"

HTMLFileExtension(key, args) ==
    LET extension == "html"
    IN  IF IsPlainObject(key) THEN GetFastValue(key.v, "extension", extension)
        ELSE extension

HTMLFileConfig(loader, key, args) ==
    LET config == key.v
        keyF == IF IsPlainObject(key) THEN Field("key", config, "key")
                ELSE [key |-> key.v]
        urlF == IF IsPlainObject(key) THEN Field("url", config, "url")
                ELSE Field("url", args, "url")
        xhrF == IF IsPlainObject(key) THEN Field("xhrSettings", config, "xhrSettings")
                ELSE Field("xhrSettings", args, "xhrSettings")
    IN  [type |-> "html",
         cache |-> loader.textureManager,
         extension |-> HTMLFileExtension(key, args),
         responseType |-> "text",
         config |-> [width |-> HTMLFileWidth(key, args),
                     height |-> HTMLFileHeight(key, args)]]
        @@ keyF @@ urlF @@ xhrF

HTMLFile(loader, key, args) == File(loader, HTMLFileConfig(loader, key, args), "HTMLFile")

----------------------------------------------------------------------------
(* LoaderPlugin#html *)

RECURSIVE htmlLoop(_, _, _, _)
htmlLoop(loader, q, key, i) ==
    IF i > Len(key) THEN q
    ELSE htmlLoop(loader, addFile(q, HTMLFile(loader, key[i], Empty)), key, i + 1)

\* Mutant: only the first element of an array is added, with the positional
\* arguments.
htmlAdd_firstOnly(loader, q, key, args) ==
    IF IsArray(key)
    THEN (IF Len(key.v) = 0 THEN q ELSE addFile(q, HTMLFile(loader, key.v[1], args)))
    ELSE addFile(q, HTMLFile(loader, key, args))

htmlAdd(loader, q, key, args) ==
    IF IsArray(key) THEN htmlLoop(loader, q, key.v, 1)
    ELSE addFile(q, HTMLFile(loader, key, args))

html(key, args) ==
    /\ queue' = htmlAdd(Loader, queue, key, args)
    /\ lastCall' = [method |-> "html", key |-> key, args |-> args,
                    before |-> Len(queue), ret |-> Loader.id]
    /\ UNCHANGED <<textures, tilemaps>>

----------------------------------------------------------------------------
(* JSONFile constructor (loader/filetypes/JSONFile.js), the parent class *)

JSONFile(cls, loader, key, args) ==
    LET config == key.v
        keyF == IF IsPlainObject(key) THEN Field("key", config, "key")
                ELSE [key |-> key.v]
        urlF == IF IsPlainObject(key) THEN Field("url", config, "url")
                ELSE Field("url", args, "url")
        xhrF == IF IsPlainObject(key) THEN Field("xhrSettings", config, "xhrSettings")
                ELSE Field("xhrSettings", args, "xhrSettings")
        extension == IF IsPlainObject(key) THEN GetFastValue(config, "extension", "json")
                     ELSE "json"
        fileConfig == [type |-> "json",
                       cache |-> loader.cacheManager.json,
                       extension |-> extension,
                       responseType |-> "text"]
                      @@ keyF @@ urlF @@ xhrF
    IN  File(loader, fileConfig, cls)

----------------------------------------------------------------------------
(* TilemapImpactFile constructor *)

\* The arguments the constructor passes on to JSONFile.call.
TilemapImpactFileSuper(loader, key, args) ==
    [fn |-> "JSONFile.call", loader |-> loader.id, key |-> key,
     args |-> Field("url", args, "url") @@ Field("xhrSettings", args, "xhrSettings")]

TilemapImpactFileType == "tilemapJSON"

\* Mutant: the cache JSONFile assigned is kept.
TilemapImpactFileCache_keepsParent(loader) == loader.cacheManager.json

TilemapImpactFileCache(loader) == loader.cacheManager.tilemap

TilemapImpactFile(loader, key, args) ==
    LET super == TilemapImpactFileSuper(loader, key, args)
        this == JSONFile("TilemapImpactFile", loader, super.key, super.args)
    IN  [this EXCEPT !.trace = Append(this.trace, super),
                     !.type = TilemapImpactFileType,
                     !.cache = TilemapImpactFileCache(loader)]

----------------------------------------------------------------------------
(* LoaderPlugin#tilemapWeltmeister *)

RECURSIVE tilemapLoop(_, _, _, _)
tilemapLoop(loader, q, key, i) ==
    IF i > Len(key) THEN q
    ELSE tilemapLoop(loader, addFile(q, TilemapImpactFile(loader, key[i], Empty)),
                     key, i + 1)

tilemapAdd(loader, q, key, args) ==
    IF IsArray(key) THEN tilemapLoop(loader, q, key.v, 1)
    ELSE addFile(q, TilemapImpactFile(loader, key, args))

tilemapWeltmeister(key, args) ==
    /\ queue' = tilemapAdd(Loader, queue, key, args)
    /\ lastCall' = [method |-> "tilemapWeltmeister", key |-> key, args |-> args,
                    before |-> Len(queue), ret |-> Loader.id]
    /\ UNCHANGED <<textures, tilemaps>>

----------------------------------------------------------------------------
(* Completion in the File base class and the Loader (loader/File.js,        *)
(* loader/LoaderPlugin.js). A step works on w, the file together with the   *)
(* two caches, and appends the calls it makes to the file's trace.          *)

World(file, tex, maps) == [file |-> file, textures |-> tex, tilemaps |-> maps]

Log(w, call) == [w EXCEPT !.file.trace = Append(@, call)]

\* File.pendingDestroy(data): the file is flagged for removal and `data` is
\* announced as the loaded result.
pendingDestroy(w, data) == Log(w, [fn |-> "pendingDestroy", data |-> data])

\* TextureManager.addImage(key, source): creates, stores and returns a texture.
addImage(key, source) == [texture |-> key] @@ source

\* BaseCache.add(key, data): entries.set(key, data).
cacheAdd(cache, key, data) == (key :> data) @@ cache

\* tilemaps/Formats
WELTMEISTER == "TILEMAP_FORMATS.WELTMEISTER"

HTMLFile_addToCache(w) ==
    LET f == w.file
        texture == addImage(f.key, Field("source", f, "data"))
        w1 == Log(w, [fn |-> "cache.addImage", key |-> f.key]
                     @@ Field("data", f, "data"))
        w2 == [w1 EXCEPT !.textures = cacheAdd(@, f.key, texture)]
    IN  pendingDestroy(w2, texture)

\* Mutant: the loaded JSON is cached as it is, without the format tag.
TilemapImpactFile_addToCache_untagged(w) ==
    LET f == w.file
        tiledata == f.data
        w1 == Log(w, [fn |-> "cache.add", key |-> f.key, data |-> tiledata])
        w2 == [w1 EXCEPT !.tilemaps = cacheAdd(@, f.key, tiledata)]
    IN  pendingDestroy(w2, tiledata)

TilemapImpactFile_addToCache(w) ==
    LET f == w.file
        tiledata == [format |-> WELTMEISTER] @@ Field("data", f, "data")
        w1 == Log(w, [fn |-> "cache.add", key |-> f.key, data |-> tiledata])
        w2 == [w1 EXCEPT !.tilemaps = cacheAdd(@, f.key, tiledata)]
    IN  pendingDestroy(w2, tiledata)

\* file.addToCache(), by the file's class.
addToCache(w) ==
    IF w.file.cls = "HTMLFile" THEN HTMLFile_addToCache(w)
    ELSE TilemapImpactFile_addToCache(w)

\* Loader.fileProcessComplete(file): a file that is FILE_COMPLETE is added to
\* its cache; an errored one is not.
fileProcessComplete(w) ==
    LET w1 == Log(w, [fn |-> "loader.fileProcessComplete", state |-> w.file.state])
    IN  IF w.file.state = "FILE_COMPLETE" THEN addToCache(w1) ELSE w1

\* File.onProcessComplete(): marks the file FILE_COMPLETE and reports it.
onProcessComplete(w) ==
    fileProcessComplete([w EXCEPT !.file.state = "FILE_COMPLETE"])

\* File.onProcessError(): marks the file FILE_ERRORED and reports it.
onProcessError(w) ==
    fileProcessComplete([w EXCEPT !.file.state = "FILE_ERRORED"])

----------------------------------------------------------------------------
(* HTMLFile.onProcess *)

Digit(d) ==
    CASE d = 0 -> "0" [] d = 1 -> "1" [] d = 2 -> "2" [] d = 3 -> "3" [] d = 4 -> "4"
      [] d = 5 -> "5" [] d = 6 -> "6" [] d = 7 -> "7" [] d = 8 -> "8" [] d = 9 -> "9"

\* String concatenation with a non-negative integer: its decimal digits.
RECURSIVE NumberToString(_)
NumberToString(n) ==
    IF n < 10 THEN Digit(n) ELSE NumberToString(n \div 10) \o Digit(n % 10)

\* Array.prototype.join
RECURSIVE Join(_, _)
Join(parts, sep) ==
    IF Len(parts) = 0 THEN ""
    ELSE IF Len(parts) = 1 THEN parts[1]
    ELSE parts[1] \o sep \o Join(Tail(parts), sep)

\* Mutant: the viewBox is square, built from the width twice.
HTMLFileSVGParts_squareViewBox(w, h, responseText) ==
    << "<svg width=\"" \o NumberToString(w) \o "px\" height=\"" \o NumberToString(h)
         \o "px\" viewBox=\"0 0 " \o NumberToString(w) \o " " \o NumberToString(w)
         \o "\" xmlns=\"http://www.w3.org/2000/svg\">",
       "<foreignObject width=\"100%\" height=\"100%\">",
       "<body xmlns=\"http://www.w3.org/1999/xhtml\">",
       responseText,
       "</body>",
       "</foreignObject>",
       "</svg>" >>

\* The `data` array pushed in onProcess.
HTMLFileSVGParts(w, h, responseText) ==
    << "<svg width=\"" \o NumberToString(w) \o "px\" height=\"" \o NumberToString(h)
         \o "px\" viewBox=\"0 0 " \o NumberToString(w) \o " " \o NumberToString(h)
         \o "\" xmlns=\"http://www.w3.org/2000/svg\">",
       "<foreignObject width=\"100%\" height=\"100%\">",
       "<body xmlns=\"http://www.w3.org/1999/xhtml\">",
       responseText,
       "</body>",
       "</foreignObject>",
       "</svg>" >>

\* onProcess up to the end of the try / catch. Whether window.Blob throws is
\* the browser's choice.
HTMLFile_onProcess(w0, blobThrows) ==
    LET w1 == [w0 EXCEPT !.file.state = "FILE_PROCESSING"]
        f == w1.file
        data == HTMLFileSVGParts(f.config.width, f.config.height,
                                 f.xhrLoader.responseText)
        svg == << Join(data, "\n") >>
        blob == [parts |-> svg, type |-> "image/svg+xml;charset=utf-8"]
        w2 == Log(w1, [fn |-> "window.Blob", parts |-> svg, type |-> blob.type,
                       threw |-> blobThrows])
        image == [el |-> "Image", status |-> "loading", src |-> blob]
                 @@ Field("crossOrigin", f, "crossOrigin")
    IN  IF blobThrows
        THEN onProcessComplete([w2 EXCEPT !.file.state = "FILE_ERRORED"])
        ELSE [w2 EXCEPT !.file = ("data" :> image) @@ @]

\* this.data.onload: the object URL is revoked and the file completes.
HTMLFile_onload(w) ==
    onProcessComplete(Log([w EXCEPT !.file.data.status = "loaded"],
                          [fn |-> "File.revokeObjectURL"]))

\* this.data.onerror: the object URL is revoked and the file errors.
HTMLFile_onerror(w) ==
    onProcessError(Log([w EXCEPT !.file.data.status = "error"],
                       [fn |-> "File.revokeObjectURL"]))

----------------------------------------------------------------------------
(* JSONFile.onProcess, inherited by TilemapImpactFile *)

\* JSON.parse of the documents the server holds.
JSONParse(text) ==
    CASE text = "{\"entities\":[]}" -> [entities |-> <<>>]
      [] text = "{\"layer\":[1]}" -> [layer |-> <<1>>]

JSONFile_onProcess(w0) ==
    LET w1 == [w0 EXCEPT !.file.state = "FILE_PROCESSING"]
        json == JSONParse(w1.file.xhrLoader.responseText)
    IN  onProcessComplete([w1 EXCEPT !.file = ("data" :> json) @@ @])

----------------------------------------------------------------------------
(* The loader's steps on a queued file *)

\* The step's outcome w replaces file i and the two caches.
Commit(i, w) ==
    /\ queue' = [queue EXCEPT ![i] = w.file]
    /\ textures' = w.textures
    /\ tilemaps' = w.tilemaps
    /\ UNCHANGED <<lastCall, input>>

\* The transfer of a file ended well: Loader.nextFile calls file.onProcess().
Loaded(i, text) ==
    World([("xhrLoader" :> [responseText |-> text]) @@ queue[i]
             EXCEPT !.state = "FILE_LOADED"],
          textures, tilemaps)

HtmlTexts == {"<p>hi</p>", "<b>x</b>\n<i>y</i>"}

JsonTexts == {"{\"entities\":[]}", "{\"layer\":[1]}"}

LoadHTML(i) ==
    /\ queue[i].cls = "HTMLFile"
    /\ queue[i].state = "FILE_PENDING"
    /\ \E text \in HtmlTexts, blobThrows \in BOOLEAN :
          Commit(i, HTMLFile_onProcess(Loaded(i, text), blobThrows))

LoadTilemap(i) ==
    /\ queue[i].cls = "TilemapImpactFile"
    /\ queue[i].state = "FILE_PENDING"
    /\ \E text \in JsonTexts : Commit(i, JSONFile_onProcess(Loaded(i, text)))

\* The transfer failed: Loader.nextFile(file, false).
LoadFailed(i) ==
    /\ queue[i].state = "FILE_PENDING"
    /\ Commit(i, World([queue[i] EXCEPT !.state = "FILE_FAILED"], textures, tilemaps))

ImageWaiting(i) ==
    /\ queue[i].cls = "HTMLFile"
    /\ queue[i].state = "FILE_PROCESSING"
    /\ "data" \in DOMAIN queue[i]
    /\ queue[i].data.status = "loading"

ImageOnload(i) ==
    /\ ImageWaiting(i)
    /\ Commit(i, HTMLFile_onload(World(queue[i], textures, tilemaps)))

ImageOnerror(i) ==
    /\ ImageWaiting(i)
    /\ Commit(i, HTMLFile_onerror(World(queue[i], textures, tilemaps)))


----------------------------------------------------------------------------
(* Inputs of SpecRegister *)

Keys == {"alien", "map"}

Configs ==
    { [key |-> k] @@ u @@ x @@ e @@ w @@ h :
        k \in Keys,
        u \in {Empty, [url |-> "cfg.url"]},
        x \in {Empty, [xhrSettings |-> "cfg.xhr"]},
        e \in {Empty, [extension |-> "htm"]},
        w \in {Empty, [width |-> 256]},
        h \in {Empty, [height |-> 128]} }

HtmlArgs ==
    { u @@ w @@ h @@ x :
        u \in {Empty, [url |-> "arg.url"]},
        w \in {Empty, [width |-> 300]},
        h \in {Empty, [height |-> 200]},
        x \in {Empty, [xhrSettings |-> "arg.xhr"]} }

\* Array elements: a configuration object, or (tolerated by the code) a string.
ArrElems ==
    { ObjKey([key |-> k] @@ w @@ h) :
        k \in Keys, w \in {Empty, [width |-> 256]}, h \in {Empty, [height |-> 128]} }
    \cup { ObjKey([key |-> "alien", url |-> "cfg.url", xhrSettings |-> "cfg.xhr",
                   extension |-> "htm"]),
           StrKey("map") }

RECURSIVE SeqsUpTo(_, _)
SeqsUpTo(S, n) ==
    IF n = 0 THEN {<<>>}
    ELSE LET shorter == SeqsUpTo(S, n - 1)
         IN  shorter \cup { Append(s, e) : s \in { t \in shorter : Len(t) = n - 1 }, e \in S }

HtmlKeys ==
    { StrKey(k) : k \in Keys } \cup { ObjKey(c) : c \in Configs }
    \cup { ArrKey(a) : a \in SeqsUpTo(ArrElems, MaxArr) }

NoCall == [method |-> "none"]

TileConfigs ==
    { [key |-> k] @@ u @@ x @@ e :
        k \in Keys,
        u \in {Empty, [url |-> "cfg.url"]},
        x \in {Empty, [xhrSettings |-> "cfg.xhr"]},
        e \in {Empty, [extension |-> "htm"]} }

TileArgs ==
    { u @@ x :
        u \in {Empty, [url |-> "arg.url"]},
        x \in {Empty, [xhrSettings |-> "arg.xhr"]} }

TileKeys ==
    { StrKey(k) : k \in Keys } \cup { ObjKey(c) : c \in TileConfigs }
    \cup { ArrKey(a) : a \in SeqsUpTo(ArrElems, MaxArr) }

RegisterInputs ==
    { [method |-> "html", key |-> k, args |-> a] : k \in HtmlKeys, a \in HtmlArgs }
    \cup { [method |-> "tilemapWeltmeister", key |-> k, args |-> a] :
              k \in TileKeys, a \in TileArgs }

----------------------------------------------------------------------------
(* Inputs of Spec *)

\* Spec registers one file per call; arrays are SpecRegister's.
LoadHtmlKeys == { StrKey("alien"), ObjKey([key |-> "map", width |-> 256, height |-> 128]) }

LoadHtmlArgs == { Empty, [width |-> 300] }

LoadTileKeys == { StrKey("alien"), ObjKey([key |-> "map", url |-> "cfg.url"]) }

LoadTileArgs == { Empty, [url |-> "arg.url"] }

CallSize(key) == IF IsArray(key) THEN Len(key.v) ELSE 1

----------------------------------------------------------------------------
(* Specifications *)

RegisterHtml ==
    /\ input.method = "html"
    /\ lastCall = NoCall
    /\ html(input.key, input.args)
    /\ UNCHANGED input

RegisterTilemap ==
    /\ input.method = "tilemapWeltmeister"
    /\ lastCall = NoCall
    /\ tilemapWeltmeister(input.key, input.args)
    /\ UNCHANGED input

InitRegister ==
    /\ queue = <<>>
    /\ lastCall = NoCall
    /\ input \in RegisterInputs
    /\ textures = Empty
    /\ tilemaps = Empty

NextRegister == RegisterHtml \/ RegisterTilemap

SpecRegister == InitRegister /\ [][NextRegister]_vars

CallHtml ==
    \E key \in LoadHtmlKeys, args \in LoadHtmlArgs :
        /\ Len(queue) + CallSize(key) <= MaxFiles
        /\ html(key, args)
        /\ UNCHANGED input

CallTilemap ==
    \E key \in LoadTileKeys, args \in LoadTileArgs :
        /\ Len(queue) + CallSize(key) <= MaxFiles
        /\ tilemapWeltmeister(key, args)
        /\ UNCHANGED input

StepLoadHTML == \E i \in 1..Len(queue) : LoadHTML(i)

StepLoadTilemap == \E i \in 1..Len(queue) : LoadTilemap(i)

StepLoadFailed == \E i \in 1..Len(queue) : LoadFailed(i)

StepImageOnload == \E i \in 1..Len(queue) : ImageOnload(i)

StepImageOnerror == \E i \in 1..Len(queue) : ImageOnerror(i)

Init ==
    /\ queue = <<>>
    /\ lastCall = NoCall
    /\ input = NoCall
    /\ textures = Empty
    /\ tilemaps = Empty

Next ==
    \/ CallHtml
    \/ CallTilemap
    \/ StepLoadHTML
    \/ StepLoadTilemap
    \/ StepLoadFailed
    \/ StepImageOnload
    \/ StepImageOnerror

Spec == Init /\ [][Next]_vars

----------------------------------------------------------------------------
(* What the last registered call was given, and what it added *)

Called(method) == lastCall.method = method

\* The key arguments the call builds one file each from, in order.
CallElems == IF IsArray(lastCall.key) THEN lastCall.key.v ELSE <<lastCall.key>>

\* The files the call handed to addFile, in order.
NewFiles == SubSeq(queue, lastCall.before + 1, Len(queue))

\* The string key or the configuration object's own property, as an object
\* fragment: what a file built from element e alone (no positional
\* arguments) would be given for property k.
OwnField(e, k) == IF e.kind = "object" THEN Field(k, e.v, k) ELSE Empty

OwnKey(e) == IF e.kind = "object" THEN Field("key", e.v, "key") ELSE [key |-> e.v]

----------------------------------------------------------------------------
(* Claims checked under SpecRegister *)

\* C2: html() and tilemapWeltmeister() only construct files and hand them to
\* addFile: one file for a non-array key, one per element in array order for an
\* array key, each array file built from its element alone (the positional
\* url / width / height / xhrSettings are ignored); no file is started,
\* processed or cached, and the method returns the loader it was called on.
C2_RegisterOnlyQueues ==
    ~Called("none") =>
        /\ lastCall.ret = Loader.id
        /\ Len(queue) = lastCall.before + Len(CallElems)
        /\ textures = Empty /\ tilemaps = Empty
        /\ \A i \in 1..Len(NewFiles) :
            LET f == NewFiles[i]
                e == CallElems[i]
            IN  /\ f.cls = (IF Called("html") THEN "HTMLFile" ELSE "TilemapImpactFile")
                /\ f.state = "FILE_PENDING"
                /\ DOMAIN f \cap {"data", "xhrLoader"} = {}
                /\ \A j \in 1..Len(f.trace) : f.trace[j].fn = "JSONFile.call"
                /\ Field("key", f, "key") = OwnKey(e)
                /\ IsArray(lastCall.key) =>
                    /\ Field("url", f, "url") = OwnField(e, "url")
                    /\ Field("xhrSettings", f, "xhrSettings") = OwnField(e, "xhrSettings")
                    /\ Called("html") =>
                        /\ Field("width", f.config, "width")
                             = (IF OwnField(e, "width") = Empty THEN [width |-> 512]
                                ELSE OwnField(e, "width"))
                        /\ Field("height", f.config, "height")
                             = (IF OwnField(e, "height") = Empty THEN [height |-> 512]
                                ELSE OwnField(e, "height"))

\* C2 witness: an array of two elements was registered together with
\* positional arguments, and two files were queued.
C2_Witness ==
    /\ ~Called("none")
    /\ IsArray(lastCall.key)
    /\ Len(lastCall.key.v) = 2
    /\ lastCall.key.v[1] # lastCall.key.v[2]
    /\ {"url", "xhrSettings"} \subseteq DOMAIN lastCall.args
    /\ Len(queue) = 2

\* C3 as claimed: with a string key the size is the positional argument or 512;
\* with a configuration object it is the object's property or else 512.
C3_Original ==
    Called("html") =>
        \A i \in 1..Len(NewFiles) :
            LET f == NewFiles[i]
                e == CallElems[i]
                a == IF IsArray(lastCall.key) THEN Empty ELSE lastCall.args
            IN  /\ e.kind = "string" =>
                    /\ f.config.width = (IF "width" \in DOMAIN a THEN a.width ELSE 512)
                    /\ f.config.height = (IF "height" \in DOMAIN a THEN a.height ELSE 512)
                /\ e.kind = "object" =>
                    /\ f.config.width
                         = (IF "width" \in DOMAIN e.v THEN e.v.width ELSE 512)
                    /\ f.config.height
                         = (IF "height" \in DOMAIN e.v THEN e.v.height ELSE 512)

\* C3 amended: a configuration object's width / height property wins when
\* present; otherwise the positional argument is used when one was passed with
\* the object, and 512 only when neither is given. Width and height are
\* resolved independently; array elements get no positional argument.
C3_SizeDefaults ==
    Called("html") =>
        \A i \in 1..Len(NewFiles) :
            LET f == NewFiles[i]
                e == CallElems[i]
                a == IF IsArray(lastCall.key) THEN Empty ELSE lastCall.args
                argW == IF "width" \in DOMAIN a THEN a.width ELSE 512
                argH == IF "height" \in DOMAIN a THEN a.height ELSE 512
            IN  /\ e.kind = "string" =>
                    /\ f.config.width = argW
                    /\ f.config.height = argH
                /\ e.kind = "object" =>
                    /\ f.config.width
                         = (IF "width" \in DOMAIN e.v THEN e.v.width ELSE argW)
                    /\ f.config.height
                         = (IF "height" \in DOMAIN e.v THEN e.v.height ELSE argH)

\* C3 witness: a configuration object with a width and no height, passed with
\* a positional height: the width is the object's, the height the argument's.
C3_Witness ==
    /\ Called("html")
    /\ IsPlainObject(lastCall.key)
    /\ "width" \in DOMAIN lastCall.key.v
    /\ "height" \notin DOMAIN lastCall.key.v
    /\ {"width", "height"} \subseteq DOMAIN lastCall.args
    /\ queue[1].config = [width |-> 256, height |-> 200]

C8_TypeAndCacheOverride ==
    Called("tilemapWeltmeister") =>
        \A i \in 1..Len(NewFiles) :
            LET f == NewFiles[i]
                e == CallElems[i]
                a == IF IsArray(lastCall.key) THEN Empty ELSE lastCall.args
                parent == JSONFile("TilemapImpactFile", Loader, e, a)
            IN  /\ f.type = "tilemapJSON"
                /\ f.cache = "cacheManager.tilemap"
                /\ f.fileConfig.type = "json"
                /\ f.fileConfig.cache = "cacheManager.json"
                /\ f.trace = <<[fn |-> "JSONFile.call", loader |-> "loader",
                                key |-> e, args |-> a]>>
                /\ DOMAIN f = DOMAIN parent
                /\ \A k \in DOMAIN f \ {"type", "cache", "trace"} : f[k] = parent[k]
                /\ Field("key", f, "key") = OwnKey(e)
                /\ Field("url", f, "url")
                     = (IF e.kind = "object" THEN OwnField(e, "url") ELSE Field("url", a, "url"))
                /\ Field("xhrSettings", f, "xhrSettings")
                     = (IF e.kind = "object" THEN OwnField(e, "xhrSettings")
                        ELSE Field("xhrSettings", a, "xhrSettings"))

\* C8 witness: a tilemap file built from a string key with a url and
\* xhrSettings is queued with the overridden type and cache.
C8_Witness ==
    /\ Called("tilemapWeltmeister")
    /\ lastCall.key.kind = "string"
    /\ DOMAIN lastCall.args = {"url", "xhrSettings"}
    /\ Len(queue) = 1
    /\ queue[1].type = "tilemapJSON"
    /\ queue[1].url = "arg.url"

----------------------------------------------------------------------------
(* Claims checked under Spec *)

\* The calls of function fn in a file's trace, in order.
CallsOf(f, fn) == SelectSeq(f.trace, LAMBDA c : c.fn = fn)

HTMLFiles == { i \in 1..Len(queue) : queue[i].cls = "HTMLFile" }

TilemapFiles == { i \in 1..Len(queue) : queue[i].cls = "TilemapImpactFile" }

\* window.Blob threw while file i was processed.
BlobThrew(i) ==
    \E j \in 1..Len(queue[i].trace) :
        /\ queue[i].trace[j].fn = "window.Blob"
        /\ queue[i].trace[j].threw

\* C1: whenever window.Blob throws, the file ends FILE_ERRORED, is reported to
\* the loader as errored, and addToCache / textureManager.addImage is never
\* invoked for it.
C1_BlobFailureFailsFile ==
    \A i \in HTMLFiles :
        BlobThrew(i) =>
            /\ queue[i].state = "FILE_ERRORED"
            /\ \A j \in 1..Len(queue[i].trace) :
                 /\ queue[i].trace[j].fn # "cache.addImage"
                 /\ queue[i].trace[j].fn = "loader.fileProcessComplete"
                      => queue[i].trace[j].state = "FILE_ERRORED"

\* The decimal numerals of the sizes the inputs use, written out.
Numeral ==
    (512 :> "512") @@ (300 :> "300") @@ (256 :> "256") @@ (200 :> "200")
    @@ (128 :> "128")

\* C5: the markup handed to window.Blob is the seven parts joined by a
\* newline: the svg tag with the configured width, height and viewBox, the
\* foreignObject tag, the XHTML body tag, the response text unmodified, and the
\* three closing tags.
C5_SvgMarkup ==
    \A i \in HTMLFiles :
        \A j \in 1..Len(queue[i].trace) :
            queue[i].trace[j].fn = "window.Blob" =>
                LET f == queue[i]
                    w == Numeral[f.config.width]
                    h == Numeral[f.config.height]
                IN  queue[i].trace[j].parts =
                      << "<svg width=\"" \o w \o "px\" height=\"" \o h
                         \o "px\" viewBox=\"0 0 " \o w \o " " \o h
                         \o "\" xmlns=\"http://www.w3.org/2000/svg\">\n"
                         \o "<foreignObject width=\"100%\" height=\"100%\">\n"
                         \o "<body xmlns=\"http://www.w3.org/1999/xhtml\">\n"
                         \o f.xhrLoader.responseText
                         \o "\n</body>\n</foreignObject>\n</svg>" >>

\* C5 witness: a 256 x 128 file whose response was <p>hi</p> handed exactly
\* this markup to window.Blob.
C5_Witness ==
    \E i \in HTMLFiles :
        /\ queue[i].config = [width |-> 256, height |-> 128]
        /\ CallsOf(queue[i], "window.Blob") # <<>>
        /\ CallsOf(queue[i], "window.Blob")[1].parts =
             << "<svg width=\"256px\" height=\"128px\" viewBox=\"0 0 256 128\" xmlns=\"http://www.w3.org/2000/svg\">\n<foreignObject width=\"100%\" height=\"100%\">\n<body xmlns=\"http://www.w3.org/1999/xhtml\">\n<p>hi</p>\n</body>\n</foreignObject>\n</svg>" >>

\* The tilemap cache entry addToCache builds for file f.
TileEntry(f) == [format |-> "TILEMAP_FORMATS.WELTMEISTER", data |-> f.data]

\* File i ran addToCache in this step.
AddsToCache(i) ==
    /\ i \in TilemapFiles
    /\ CallsOf(queue[i], "cache.add") = <<>>
    /\ CallsOf(queue[i]', "cache.add") # <<>>

C6_Step ==
    /\ DOMAIN tilemaps \subseteq DOMAIN tilemaps'
    /\ \A k \in DOMAIN tilemaps' :
        (k \notin DOMAIN tilemaps \/ tilemaps'[k] # tilemaps[k])
            => \E i \in TilemapFiles : AddsToCache(i) /\ queue[i].key = k
    /\ \A i \in 1..Len(queue) :
        AddsToCache(i) =>
            LET f == queue[i]'
            IN  /\ f.key = queue[i].key
                /\ f.data = JSONParse(f.xhrLoader.responseText)
                /\ tilemaps' = [k \in DOMAIN tilemaps \cup {f.key} |->
                                  IF k = f.key THEN TileEntry(f) ELSE tilemaps[k]]
                /\ textures' = textures
                /\ CallsOf(f, "cache.add")
                     = <<[fn |-> "cache.add", key |-> f.key, data |-> TileEntry(f)]>>
                /\ CallsOf(f, "pendingDestroy")
                     = <<[fn |-> "pendingDestroy", data |-> TileEntry(f)]>>
                /\ f.trace[Len(f.trace)].fn = "pendingDestroy"
                /\ f.trace[Len(f.trace) - 1].fn = "cache.add"

\* C6: TilemapImpactFile.addToCache inserts exactly one entry, under the
\* file's key, holding format WELTMEISTER and the file's loaded JSON; no other
\* key of the cache changes, the file's key and data stay as they were, and
\* pendingDestroy is then called once with that same entry.
C6_TilemapAddToCache == [][C6_Step]_vars

\* C6 witness: two tilemap files with different keys and different JSON are
\* both in the cache.
C6_Witness ==
    /\ DOMAIN tilemaps = {"alien", "map"}
    /\ tilemaps["alien"] = [format |-> "TILEMAP_FORMATS.WELTMEISTER",
                            data |-> [entities |-> <<>>]]
    /\ tilemaps["map"] = [format |-> "TILEMAP_FORMATS.WELTMEISTER",
                          data |-> [layer |-> <<1>>]]
    /\ \A i \in 1..Len(queue) : CallsOf(queue[i], "pendingDestroy") # <<>>

\* C7: whenever HTMLFile.addToCache runs, it calls addImage once with the
\* file's key and data and then pendingDestroy once with the texture addImage
\* returned, and the data is the Image created in onProcess whose onload has
\* fired.
C7_HtmlAddToCache ==
    \A i \in HTMLFiles :
        LET f == queue[i]
        IN  CallsOf(f, "cache.addImage") # <<>> =>
                /\ "data" \in DOMAIN f
                /\ f.data.el = "Image"
                /\ f.data.status = "loaded"
                /\ CallsOf(f, "cache.addImage")
                     = <<[fn |-> "cache.addImage", key |-> f.key, data |-> f.data]>>
                /\ CallsOf(f, "pendingDestroy")
                     = <<[fn |-> "pendingDestroy",
                          data |-> [texture |-> f.key, source |-> f.data]]>>
                /\ f.trace[Len(f.trace)].fn = "pendingDestroy"
                /\ f.trace[Len(f.trace) - 1].fn = "cache.addImage"

====
